---- MODULE Spec2Model ----
(***************************************************************************)
(* HeartLens: the streaming PPG pipeline (sample buffer, valley detection, *)
(* heart-rate / HRV estimation, signal-quality gate).                      *)
(*                                                                         *)
(* Three implementations of the pipeline live in the repository:           *)
(*   "gated"  src/app/hooks/useSignalQuality.ts:232-534 (quality gated)    *)
(*   "plain"  src/app/hooks/usePPGProcessing.ts                            *)
(*   "page"   src/app/page.tsx                                             *)
(*                                                                         *)
(* Numbers.  JavaScript numbers are modelled by integers.  Timestamps are  *)
(* integer milliseconds.  Real-valued results are computed exactly and     *)
(* represented by an integer as stated at each definition; NaN is a        *)
(* distinguished value that no computation yields otherwise.               *)
(***************************************************************************)
EXTENDS Integers, Sequences, FiniteSets, TLC

\* ------------------------------------------------------------------------
\* Number helpers
\* ------------------------------------------------------------------------

\* The value of 0/0 and of every arithmetic on it.
NaN == -1

Min2(a, b) == IF a < b THEN a ELSE b
Max2(a, b) == IF a > b THEN a ELSE b

\* a/b >= c/d for naturals a, c and positive b, d (continued fractions, so
\* that no product is formed).
RECURSIVE FracGeq(_, _, _, _)
FracGeq(a, b, c, d) ==
  LET qa == a \div b
      qc == c \div d
      ra == a % b
      rc == c % d
  IN  IF qa # qc THEN qa > qc
      ELSE IF rc = 0 THEN TRUE
      ELSE IF ra = 0 THEN FALSE
      ELSE FracGeq(d, rc, b, ra)

\* a*b >= c*d for naturals.
ProdGeq(a, b, c, d) ==
  IF c = 0 \/ d = 0 THEN TRUE
  ELSE IF a = 0 \/ b = 0 THEN FALSE
  ELSE FracGeq(a, c, d, b)

\* floor(sqrt(x)) for a natural x.
RECURSIVE IsqrtFrom(_, _, _)
IsqrtFrom(x, lo, hi) ==
  IF lo >= hi THEN lo
  ELSE LET mid == (lo + hi + 1) \div 2
       IN  IF mid <= x \div mid THEN IsqrtFrom(x, mid, hi)
           ELSE IsqrtFrom(x, lo, mid - 1)
Isqrt(x) == IsqrtFrom(x, 0, Min2(x, 46340))

\* ------------------------------------------------------------------------
\* Valleys and the interval estimators
\* ------------------------------------------------------------------------

\* Sum of f[lo..hi] (halving, to keep the evaluation shallow).
RECURSIVE SumRange(_, _, _)
SumRange(f, lo, hi) ==
  IF lo > hi THEN 0
  ELSE IF lo = hi THEN f[lo]
  ELSE LET mid == (lo + hi) \div 2
       IN  SumRange(f, lo, mid) + SumRange(f, mid + 1, hi)

RECURSIVE SumSqRange(_, _, _)
SumSqRange(f, lo, hi) ==
  IF lo > hi THEN 0
  ELSE IF lo = hi THEN f[lo] * f[lo]
  ELSE LET mid == (lo + hi) \div 2
       IN  SumSqRange(f, lo, mid) + SumSqRange(f, mid + 1, hi)

\* [...xs].sort((a, b) => a - b)[k] for a 0-based k < xs.length: the value
\* that has at most k elements below it and more than k at or below it.
SortedAt(xs, k) ==
  CHOOSE v \in {xs[i] : i \in 1..Len(xs)} :
    /\ Cardinality({i \in 1..Len(xs) : xs[i] < v}) <= k
    /\ Cardinality({i \in 1..Len(xs) : xs[i] <= v}) > k

\* interface Valley { timestamp: Date; value: number; index: number }
\* timestamp is getTime() in milliseconds, NaN for an Invalid Date.
Valley(ts, v, i) == [timestamp |-> ts, value |-> v, index |-> i]

\* valleys[i + 1].timestamp.getTime() - valleys[i].timestamp.getTime()
IntervalMs(a, b) ==
  IF a.timestamp = NaN \/ b.timestamp = NaN THEN NaN
  ELSE b.timestamp - a.timestamp

\* valleys.slice(1).map((_, i) => valleys[i + 1].timestamp - valleys[i].timestamp)
IntervalsMs(newValleys) ==
  [i \in 1..(Len(newValleys) - 1) |-> IntervalMs(newValleys[i], newValleys[i + 1])]

\* filter(interval => interval >= lo && interval <= hi); every comparison
\* with NaN is false.
ValidIntervals(intervals, lo, hi) ==
  LET Keep(x) == x # NaN /\ x >= lo /\ x <= hi
  IN  SelectSeq(intervals, Keep)

\* n * sum(x^2) - (sum x)^2  =  n^2 * (population variance)
Spread(xs) ==
  Len(xs) * SumSqRange(xs, 1, Len(xs))
    - SumRange(xs, 1, Len(xs)) * SumRange(xs, 1, Len(xs))

\* ceil(100 * sqrt(num / den) / s), capped at 101, for naturals num, den > 0
\* and s > 0: the least m with (m*s)^2 * den >= 10000 * num.
CeilPercent(num, den, s) ==
  LET Reached(m) == ProdGeq(m * s, m * s * den, 10000, num)
  IN  IF Reached(100)
      THEN CHOOSE m \in 0..100 :
             Reached(m) /\ \A k \in 0..(m - 1) : ~Reached(k)
      ELSE 101

\* The intervals are kept in milliseconds: interval/1000 >= 0.4 is
\* interval >= 400 and interval/1000 <= 2.0 is interval <= 2000.
\* bpm = Math.round(60 / median) = floor(60000/medianMs + 1/2).
\* confidence is the integer part of the real number
\* max(0, min(100, 100 - stdDev/mean*100)).
\*
\* HeartRateOfSampleDeviation takes the standard deviation with the n - 1
\* denominator, as calculateHRV does.
HeartRateOfSampleDeviation(newValleys, loMs, hiMs) ==
  IF Len(newValleys) < 2 THEN [bpm |-> 0, confidence |-> 0]
  ELSE
    LET validIntervals == ValidIntervals(IntervalsMs(newValleys), loMs, hiMs)
        n == Len(validIntervals)
    IN  IF n = 0 THEN [bpm |-> 0, confidence |-> 0]
        ELSE
          LET median == SortedAt(validIntervals, n \div 2)
              cvCeil == CeilPercent(n * Spread(validIntervals), n - 1,
                                    SumRange(validIntervals, 1, n))
          IN  [bpm |-> (120000 + median) \div (2 * median),
               confidence |-> Max2(0, Min2(100, 100 - cvCeil))]

HeartRateOf(newValleys, loMs, hiMs) ==
  IF Len(newValleys) < 2 THEN [bpm |-> 0, confidence |-> 0]
  ELSE
    LET validIntervals == ValidIntervals(IntervalsMs(newValleys), loMs, hiMs)
        n == Len(validIntervals)
    IN  IF n = 0 THEN [bpm |-> 0, confidence |-> 0]
        ELSE
          LET median == SortedAt(validIntervals, n \div 2)
              cvCeil == CeilPercent(Spread(validIntervals), 1,
                                    SumRange(validIntervals, 1, n))
          IN  [bpm |-> (120000 + median) \div (2 * median),
               confidence |-> Max2(0, Min2(100, 100 - cvCeil))]

calculateHeartRate(newValleys) == HeartRateOf(newValleys, 400, 2000)

calculateHeartRatePage(newValleys) == HeartRateOf(newValleys, 400, 1500)

\* sdnn = sqrt(Spread / (n * (n - 1))), NaN when n = 1 (0/0).
\* Math.round(sdnn) = floor((floor(sqrt(4 * sdnn^2)) + 1) / 2).
\* confidence = Math.round(Math.min(100, (intervalConfidence +
\* consistencyConfidence) / 2)) with cv = sdnn / meanRR * 100; Math.max,
\* Math.min and Math.round of NaN are NaN.
\*
\* HRVOfPopulation divides the squared differences by n instead of n - 1.
\* HRVOfRoundedFirst rounds sdnn before it computes cv from it.
HRVOfRoundedFirst(validIntervals) ==
  LET n == Len(validIntervals)
      s == SumRange(validIntervals, 1, n)
      d == Spread(validIntervals)
      intervalConfidence == Min2(100, 20 * n)
  IN  IF n = 1 THEN [sdnn |-> NaN, confidence |-> NaN]
      ELSE
        LET rounded == (Isqrt((4 * d) \div (n * (n - 1))) + 1) \div 2
            cvCeil == Min2(101, (100 * rounded * n + s - 1) \div s)
            twice == IF cvCeil > 100 THEN intervalConfidence + 1
                     ELSE intervalConfidence + 101 - cvCeil
        IN  [sdnn |-> rounded, confidence |-> Min2(100, twice \div 2)]

HRVOfPopulation(validIntervals) ==
  LET n == Len(validIntervals)
      s == SumRange(validIntervals, 1, n)
      d == Spread(validIntervals)
      intervalConfidence == Min2(100, 20 * n)
  IN  LET cvCeil == CeilPercent(d, 1, s)
          twice == IF cvCeil > 100 THEN intervalConfidence + 1
                   ELSE intervalConfidence + 101 - cvCeil
      IN  [sdnn |-> (Isqrt((4 * d) \div (n * n)) + 1) \div 2,
           confidence |-> Min2(100, twice \div 2)]

HRVOf(validIntervals) ==
  LET n == Len(validIntervals)
      s == SumRange(validIntervals, 1, n)
      d == Spread(validIntervals)
      intervalConfidence == Min2(100, 20 * n)
  IN  IF n = 1 THEN [sdnn |-> NaN, confidence |-> NaN]
      ELSE
        LET cvCeil == CeilPercent(n * d, n - 1, s)
            twice == IF cvCeil > 100 THEN intervalConfidence + 1
                     ELSE intervalConfidence + 101 - cvCeil
        IN  [sdnn |-> (Isqrt((4 * d) \div (n * (n - 1))) + 1) \div 2,
             confidence |-> Min2(100, twice \div 2)]

calculateHRV(newValleys) ==
  IF Len(newValleys) < 2 THEN [sdnn |-> 0, confidence |-> 0]
  ELSE
    LET validIntervals == ValidIntervals(IntervalsMs(newValleys), 250, 2000)
    IN  IF Len(validIntervals) = 0 THEN [sdnn |-> 0, confidence |-> 0]
        ELSE HRVOf(validIntervals)

calculateHRVPage(newValleys) ==
  IF Len(newValleys) < 2 THEN [sdnn |-> 0, confidence |-> 0]
  ELSE
    LET rrIntervals == ValidIntervals(IntervalsMs(newValleys), 250, 2000)
    IN  IF Len(rrIntervals) < 2 THEN [sdnn |-> 0, confidence |-> 0]
        ELSE HRVOf(rrIntervals)

\* ------------------------------------------------------------------------
\* Valley detection
\* ------------------------------------------------------------------------

\* Date.now() of the call; only differences of timestamps are ever used.
Now == 100000

\* new Date(Date.now() - ((signal.length - i) / providedFps) * 1000).getTime()
\* The Date constructor drops the fraction of a millisecond; a division by a
\* zero frame rate gives an Invalid Date.
TimestampAt(len, i, providedFps) ==
  IF providedFps = 0 THEN NaN
  ELSE Now - (((len - i) * 1000 + providedFps - 1) \div providedFps)

Abs(x) == IF x < 0 THEN 0 - x ELSE x

RECURSIVE Gcd(_, _)
Gcd(a, b) == IF b = 0 THEN a ELSE Gcd(b, a % b)

RECURSIVE GcdRange(_, _, _)
GcdRange(f, lo, hi) ==
  IF lo > hi THEN 0
  ELSE IF lo = hi THEN Abs(f[lo])
  ELSE LET mid == (lo + hi) \div 2
       IN  Gcd(GcdRange(f, lo, mid), GcdRange(f, mid + 1, hi))

RECURSIVE Lcm1To(_)
Lcm1To(k) == IF k <= 1 THEN 1 ELSE LET l == Lcm1To(k - 1) IN (l * k) \div Gcd(l, k)

\* smoothSignal: the mean of signal[max(0, i - windowSize + 1) .. i].  The
\* result is the mean multiplied by lcm(1..windowSize), which is an integer.
\* (Concatenating the empty sequence makes the result an explicit tuple.)
smoothSignal(signal, windowSize) ==
  LET scale == Lcm1To(windowSize)
  IN  [i \in 1..Len(signal) |->
         LET start == Max2(1, i - windowSize + 1)
         IN  SumRange(signal, start, i) * (scale \div (i - start + 1))] \o <<>>

\* The loop of detectValleys over the 0-based indices lo..hi-1: a candidate
\* i is pushed when it is the first valley or i - last.index >=
\* minValleyDistance.  The valley pushed after one at index last is therefore
\* the least candidate at or after last + minValleyDistance (and after last);
\* from is that lower limit.
\* Two candidates are at least 1 apart, so a minValleyDistance of 0 or 1
\* pushes every candidate, in the order of the loop.
\*
\* PushEveryCandidate is the loop without the test on minValleyDistance.
PushEveryCandidate(signal, candidates, providedFps, minValleyDistance, newValleys) ==
  LET IsPushed(i) == i \in candidates
      all == SelectSeq([k \in 1..Len(signal) |-> k - 1], IsPushed)
  IN  [k \in 1..Len(all) |->
         Valley(TimestampAt(Len(signal), all[k], providedFps),
                signal[all[k] + 1], all[k])] \o <<>>

RECURSIVE PushValleys(_, _, _, _, _)
PushValleys(signal, candidates, providedFps, minValleyDistance, newValleys) ==
  LET from == IF Len(newValleys) = 0 THEN 0
              ELSE newValleys[Len(newValleys)].index + Max2(1, minValleyDistance)
      rest == {c \in candidates : c >= from}
      IsPushed(i) == i \in candidates
      all == SelectSeq([k \in 1..Len(signal) |-> k - 1], IsPushed)
  IN  IF minValleyDistance <= 1 /\ newValleys = <<>>
      THEN [k \in 1..Len(all) |->
              Valley(TimestampAt(Len(signal), all[k], providedFps),
                     signal[all[k] + 1], all[k])] \o <<>>
      ELSE IF rest = {} THEN newValleys
      ELSE LET i == CHOOSE c \in rest : \A k \in rest : c <= k
           IN  PushValleys(signal, candidates, providedFps, minValleyDistance,
                           Append(newValleys,
                                  Valley(TimestampAt(Len(signal), i, providedFps),
                                         signal[i + 1], i)))

\* The indices that pass the tests of the loop of detectValleys of the
\* quality-gated hook, the distance to the last valley aside
\* (detectValleys below).  smoothed[i] < mean - std is
\* decided exactly: with S the sum and T the sum of squares of the n smoothed
\* values, it is S - n*v > 0 and (S - n*v)^2 > n*T - S^2; the test does not
\* change when all values are divided by a common factor.
\*
\* CandidatesAnyMinimum leaves out the test against the threshold.
CandidatesAnyMinimum(signal, providedFps) ==
  LET n == Len(signal)
      windowSize == providedFps \div 2
      smoothedSignal == smoothSignal(signal, 5)
      IsCandidate(i) ==
        /\ i >= 1
        /\ i + 1 <= n - 1
        /\ smoothedSignal[i + 1] < smoothedSignal[i]
        /\ smoothedSignal[i + 1] < smoothedSignal[i + 2]
  IN  {i \in windowSize..(n - windowSize - 1) : IsCandidate(i)}

Candidates(signal, providedFps) ==
  LET n == Len(signal)
      windowSize == providedFps \div 2
      smoothedSignal == smoothSignal(signal, 5)
      g == GcdRange(smoothedSignal, 1, n)
      u == [i \in 1..n |-> IF g = 0 THEN 0 ELSE smoothedSignal[i] \div g] \o <<>>
      S == SumRange(u, 1, n)
      R == n * SumSqRange(u, 1, n) - S * S
      BelowThreshold(i) == LET a == S - n * u[i + 1] IN a > 0 /\ a * a > R
      IsCandidate(i) ==
        /\ i >= 1
        /\ i + 1 <= n - 1
        /\ smoothedSignal[i + 1] < smoothedSignal[i]
        /\ smoothedSignal[i + 1] < smoothedSignal[i + 2]
        /\ BelowThreshold(i)
  IN  {i \in windowSize..(n - windowSize - 1) : IsCandidate(i)}

detectValleys(signal, providedFps) ==
  LET minValleyDistance == (4 * providedFps) \div 10
  IN  PushValleys(signal, Candidates(signal, providedFps),
                  providedFps, minValleyDistance, <<>>)

\* normalizeSignal: (value - min) / (max - min).  All results share the
\* denominator max - min, so a result is represented by its numerator
\* value - min; a constant signal gives 0/0 = NaN everywhere.
normalizeSignal(signal) ==
  LET n == Len(signal)
      min == CHOOSE m \in {signal[i] : i \in 1..n} : \A k \in 1..n : m <= signal[k]
      max == CHOOSE m \in {signal[i] : i \in 1..n} : \A k \in 1..n : m >= signal[k]
  IN  IF n = 0 THEN <<>>
      ELSE [i \in 1..n |-> IF max = min THEN NaN ELSE signal[i] - min] \o <<>>

\* isLocalMinimum, index 0-based.  Math.min of an empty window is Infinity;
\* every comparison with NaN is false.
isLocalMinimum(signal, index, windowSize) ==
  LET leftWindow == Max2(0, index - windowSize)..(index - 1)
      rightWindow == (index + 1)..(Min2(Len(signal), index + windowSize + 1) - 1)
  IN  /\ signal[index + 1] # NaN
      /\ \A k \in leftWindow : signal[k + 1] >= signal[index + 1]
      /\ \A k \in rightWindow : signal[k + 1] > signal[index + 1]

\* detectValleys of usePPGProcessing.ts (providedFps defaults to
\* fpsRef.current).
detectValleysNormalized(signal, providedFps) ==
  LET minValleyDistance == (4 * providedFps) \div 10
      windowSize == providedFps \div 2
      normalizedSignal == normalizeSignal(signal)
  IN  PushValleys(signal,
                  {i \in windowSize..(Len(signal) - windowSize - 1) :
                     isLocalMinimum(normalizedSignal, i, windowSize)},
                  providedFps, minValleyDistance, <<>>)

\* movingAvg[i] * 7 in detectValleys of page.tsx: the Float32Array is zero
\* except at halfWindow (first window) and at i - halfWindow for each
\* i >= windowSize.
MovingSum7(signal, i) ==
  LET n == Len(signal)
  IN  IF i = 3 /\ n >= 4 THEN SumRange(signal, 1, Min2(7, n))
      ELSE IF i >= 4 /\ i <= n - 4 THEN SumRange(signal, i - 2, i + 4)
      ELSE 0

\* The loop of detectValleys of page.tsx.  lastValleyTime is 0 at first and
\* then index/fps of the last valley; currentTime - lastValleyTime < 0.4 is
\* (i - last) * 10 < 4 * fps, and when the two sides are equal the rounding
\* of the two divisions decides (roundsBelow: the difference came out below
\* 0.4).  The loop runs upwards, so a valley lies after the last one.
RECURSIVE PushValleysPage(_, _, _, _, _)
PushValleysPage(signal, candidates, fps, roundsBelow, newValleys) ==
  LET last == IF Len(newValleys) = 0 THEN 0 ELSE newValleys[Len(newValleys)].index
      Elapsed(c) == \/ (c - last) * 10 > 4 * fps
                    \/ (c - last) * 10 = 4 * fps /\ (last = 0 \/ ~roundsBelow)
      rest == {c \in candidates : (Len(newValleys) = 0 \/ c > last) /\ Elapsed(c)}
  IN  IF rest = {} THEN newValleys
      ELSE LET i == CHOOSE c \in rest : \A k \in rest : c <= k
           IN  PushValleysPage(signal, candidates, fps, roundsBelow,
                               Append(newValleys,
                                      Valley(TimestampAt(Len(signal), i, fps),
                                             signal[i + 1], i)))

\* detectValleys of page.tsx.  With a == |7*currentValue - 7*movingAvg[i]|,
\* localAmplitude <= noiseThreshold = max(8, sqrt(variance) * 0.5) is
\* a <= 56 or (2*n*a)^2 <= 49 * (n*sum(x^2) - (sum x)^2).
detectValleysPage(signal, fps, roundsBelow) ==
  LET n == Len(signal)
      spread == n * SumSqRange(signal, 1, n)
                  - SumRange(signal, 1, n) * SumRange(signal, 1, n)
      IsValley(i) ==
        LET currentValue == signal[i + 1]
            a == Abs(7 * currentValue - MovingSum7(signal, i))
        IN  /\ currentValue < signal[i]
            /\ currentValue < signal[i - 1]
            /\ currentValue < signal[i + 2]
            /\ currentValue < signal[i + 3]
            /\ 7 * currentValue < MovingSum7(signal, i)
            /\ a > 56
            /\ ~ProdGeq(49, spread, 2 * n * a, 2 * n * a)
  IN  IF n < 5 THEN <<>>
      ELSE PushValleysPage(signal, {i \in 2..(n - 3) : IsValley(i)},
                           fps, roundsBelow, <<>>)

\* ------------------------------------------------------------------------
\* The pipeline: state
\* ------------------------------------------------------------------------

\* newData.length >= 100 (hooks) and newData.length >= 10 (page.tsx)
MinSamples == 100
MinSamplesPage == 10
\* prev.slice(-300)
SliceKeep == 300
\* providedFps: number = 30
DefaultFps == 30

\* Bound: assessSignalQuality calls that reach the model in one run.
MaxInferences == 3

Variants == {"gated", "plain", "page"}

\* The sample stream fed by the frame sampler: a periodic wave that is low
\* for the last `width` samples of every period and high otherwise.
Waves ==
  { [period |-> 30, width |-> 5, low |-> 0, high |-> 20],
    [period |-> 20, width |-> 1, low |-> 0, high |-> 20],
    [period |-> 1,  width |-> 0, low |-> 20, high |-> 20] }

\* Values fpsRef.current can take after measureFPS.
MeasuredFps == {0, 15, 30}

\* Probability vectors (in percent) a prediction can return, in the order
\* ['bad', 'acceptable', 'excellent'].
ProbVectors ==
  { <<80, 15, 5>>, <<10, 70, 20>>, <<5, 15, 80>>, <<40, 40, 20>> }

VARIABLES
  variant,            \* which implementation of the pipeline runs
  wave, phase,        \* the input stream and the position in its period
  isRecording,        \* the isRecording argument of the hook
  fpsRef,             \* fpsRef.current (read only by the plain hook)
  ppgData, valleys, heartRate, hrv,          \* useState of the hook
  modelState,         \* "loading", "loaded" (modelRef.current set), "failed"
  signalQuality, qualityConfidence,          \* useState of useSignalQuality
  pending,            \* assessSignalQuality calls that have not returned,
                      \* each named by its number in the order of the calls
  submitted,          \* number of assessSignalQuality calls made so far
  held,               \* the call whose result signalQuality holds (0: none)
  twin,               \* a second instance of the hook fed the same samples
  features,           \* the array calculateFeatures returned
  cached,             \* global.mongoose of route.ts: conn and promise
  connections,        \* one entry per call of mongoose.connect: its state
  callers,            \* the calls of dbConnect: position and return value
  pc                  \* position of the function-level specifications

vars == << variant, wave, phase, isRecording, fpsRef, ppgData, valleys,
           heartRate, hrv, modelState, signalQuality, qualityConfidence,
           pending, submitted, held, twin, features, cached, connections,
           callers, pc >>

inputVars == << variant, wave >>
sideVars == << twin, features >>
dbVars == << cached, connections, callers >>
qualityVars ==
  << modelState, signalQuality, qualityConfidence, pending, submitted, held >>
estimateVars == << valleys, heartRate, hrv >>

\* The state of a hook instance after construction: the useState and useRef
\* initial values.
FreshInstance ==
  [fpsRef |-> DefaultFps, valleys |-> <<>>,
   heartRate |-> [bpm |-> 0, confidence |-> 0],
   hrv |-> [sdnn |-> 0, confidence |-> 0],
   signalQuality |-> "--"]

\* Bound: calls of dbConnect.
MaxCallers == 4

Callers == 1..MaxCallers

\* null of the code.
Null == 0

\* route.ts after the module was evaluated in a fresh process:
\* global.mongoose is { conn: null, promise: null }, mongoose.connect was
\* not called, no request has called dbConnect.
DbIdle ==
  /\ cached = [conn |-> Null, promise |-> Null]
  /\ connections = <<>>
  /\ callers = [c \in Callers |-> [at |-> "idle", awaits |-> Null,
                                    result |-> Null]]

Init ==
  /\ variant \in Variants
  /\ wave \in Waves
  /\ phase = 0
  /\ isRecording = FALSE
  /\ fpsRef = DefaultFps
  /\ ppgData = <<>>
  /\ valleys = <<>>
  /\ heartRate = [bpm |-> 0, confidence |-> 0]
  /\ hrv = [sdnn |-> 0, confidence |-> 0]
  /\ modelState = "loading"
  /\ signalQuality = "--"
  /\ qualityConfidence = 0
  /\ pending = <<>>
  /\ submitted = 0
  /\ held = 0
  /\ twin = FreshInstance
  /\ features = <<>>
  /\ DbIdle
  /\ pc = "run"

\* ------------------------------------------------------------------------
\* The pipeline: operations
\* ------------------------------------------------------------------------

\* The sample of the wave w at position p of its period.
SampleOf(w, p) == IF p >= w.period - w.width THEN w.low ELSE w.high

\* The sample the frame sampler delivers at the current phase of the wave.
ppgSignal == SampleOf(wave, phase)

\* prev.slice(-n): the last n elements.
SliceLast(prev, n) == SubSeq(prev, Max2(1, Len(prev) - n + 1), Len(prev))

\* The buffer after t ticks of the wave w: its last SliceKeep + 1 samples.
BufferAfter(w, t) ==
  LET len == Min2(t, SliceKeep + 1)
  IN  [i \in 1..len |-> SampleOf(w, (t - len + i - 1) % w.period)] \o <<>>

\* detectValleys(newData) of the quality-gated hook, providedFps left to its
\* default.  The results for the buffers the waves produce are computed
\* once and looked up.
DetectedValleys ==
  [signal \in {BufferAfter(w, t) : w \in Waves, t \in 0..(2 * SliceKeep)} |->
     detectValleys(signal, DefaultFps)]

detectValleysDefault(signal) ==
  IF signal \in DOMAIN DetectedValleys THEN DetectedValleys[signal]
  ELSE detectValleys(signal, DefaultFps)

\* const newData = [...prev.slice(-300), ppgSignal]
\*
\* NewDataAtFront puts the sample first instead.  NewDataStartingOver empties
\* a buffer that is over its capacity before it appends.
NewDataAtFront(prev, sample) == <<sample>> \o SliceLast(prev, SliceKeep)

NewDataStartingOver(prev, sample) ==
  IF Len(prev) > SliceKeep THEN <<sample>>
  ELSE Append(SliceLast(prev, SliceKeep), sample)

NewData(prev, sample) == Append(SliceLast(prev, SliceKeep), sample)

\* useEffect on ppgData, then assessSignalQuality up to its first await:
\* nothing is submitted below 100 samples or without a model; otherwise the
\* call is in flight.
\*
\* SubmitInferenceBlocking starts a call only when none is in flight, and
\* holds the tick back until then.  SubmitInferenceAnyLength starts a call
\* whatever the length of the buffer.
SubmitInferenceAnyLength(newData) ==
  IF modelState = "loaded"
  THEN /\ submitted < MaxInferences
       /\ pending' = Append(pending, submitted + 1)
       /\ submitted' = submitted + 1
  ELSE UNCHANGED << pending, submitted >>

SubmitInferenceBlocking(newData) ==
  IF Len(newData) >= MinSamples /\ modelState = "loaded"
  THEN /\ pending = <<>>
       /\ submitted < MaxInferences
       /\ pending' = Append(pending, submitted + 1)
       /\ submitted' = submitted + 1
  ELSE UNCHANGED << pending, submitted >>

SubmitInference(newData) ==
  IF Len(newData) >= MinSamples /\ modelState = "loaded"
  THEN /\ submitted < MaxInferences
       /\ pending' = Append(pending, submitted + 1)
       /\ submitted' = submitted + 1
  ELSE UNCHANGED << pending, submitted >>

\* setIsRecording(true) / setIsRecording(false) by the owner of the hook.
StartRecording ==
  /\ pc = "run"
  /\ ~isRecording
  /\ isRecording' = TRUE
  /\ UNCHANGED << inputVars, sideVars, dbVars, phase, fpsRef, ppgData, estimateVars, qualityVars, pc >>

StopRecording ==
  /\ pc = "run"
  /\ isRecording
  /\ isRecording' = FALSE
  /\ UNCHANGED << inputVars, sideVars, dbVars, phase, fpsRef, ppgData, estimateVars, qualityVars, pc >>

\* processFrame of the quality-gated hook, with the effect of
\* useSignalQuality that the new ppgData triggers.
\*
\* processFrameUngated is the updater without the test on signalQuality.
\* processFrameLatching starts no call of assessSignalQuality while the
\* class is bad.
processFrameLatching ==
  /\ pc = "run"
  /\ variant = "gated"
  /\ isRecording
  /\ LET newData == NewData(ppgData, ppgSignal)
     IN  /\ IF Len(newData) >= MinSamples /\ signalQuality # "bad"
            THEN LET newValleys == detectValleysDefault(newData)
                 IN  /\ valleys' = newValleys
                     /\ heartRate' = calculateHeartRate(newValleys)
                     /\ hrv' = calculateHRV(newValleys)
            ELSE UNCHANGED estimateVars
         /\ ppgData' = newData
         /\ IF signalQuality # "bad" THEN SubmitInference(newData)
            ELSE UNCHANGED << pending, submitted >>
  /\ phase' = (phase + 1) % wave.period
  /\ UNCHANGED << inputVars, sideVars, dbVars, isRecording, fpsRef, modelState, signalQuality,
                  qualityConfidence, held, pc >>

processFrameUngated ==
  /\ pc = "run"
  /\ variant = "gated"
  /\ isRecording
  /\ LET newData == NewData(ppgData, ppgSignal)
     IN  /\ IF Len(newData) >= MinSamples
            THEN LET newValleys == detectValleysDefault(newData)
                 IN  /\ valleys' = newValleys
                     /\ heartRate' = calculateHeartRate(newValleys)
                     /\ hrv' = calculateHRV(newValleys)
            ELSE UNCHANGED estimateVars
         /\ ppgData' = newData
         /\ SubmitInference(newData)
  /\ phase' = (phase + 1) % wave.period
  /\ UNCHANGED << inputVars, sideVars, dbVars, isRecording, fpsRef, modelState, signalQuality,
                  qualityConfidence, held, pc >>

processFrameGated ==
  /\ pc = "run"
  /\ variant = "gated"
  /\ isRecording
  /\ LET newData == NewData(ppgData, ppgSignal)
     IN  /\ IF Len(newData) >= MinSamples /\ signalQuality # "bad"
            THEN LET newValleys == detectValleysDefault(newData)
                 IN  /\ valleys' = newValleys
                     /\ heartRate' = calculateHeartRate(newValleys)
                     /\ hrv' = calculateHRV(newValleys)
            ELSE UNCHANGED estimateVars
         /\ ppgData' = newData
         /\ SubmitInference(newData)
  /\ phase' = (phase + 1) % wave.period
  /\ UNCHANGED << inputVars, sideVars, dbVars, isRecording, fpsRef, modelState, signalQuality,
                  qualityConfidence, held, pc >>

\* measureFPS: fpsRef.current is left alone or set to the rate measured over
\* the last second.
measureFPS(fps) == fps = fpsRef \/ fps \in MeasuredFps

\* processFrame of usePPGProcessing.ts.
\*
\* processFramePlainLaggingHRV computes hrv from the valleys of the tick
\* before.
processFramePlainLaggingHRV ==
  /\ pc = "run"
  /\ variant = "plain"
  /\ isRecording
  /\ \E fps \in {fpsRef} \cup MeasuredFps :
       /\ measureFPS(fps)
       /\ fpsRef' = fps
       /\ LET newData == NewData(ppgData, ppgSignal)
          IN  /\ IF Len(newData) >= MinSamples
                 THEN LET newValleys == detectValleysNormalized(newData, fps)
                      IN  /\ valleys' = newValleys
                          /\ heartRate' = calculateHeartRate(newValleys)
                          /\ hrv' = calculateHRV(valleys)
                 ELSE UNCHANGED estimateVars
              /\ ppgData' = newData
  /\ phase' = (phase + 1) % wave.period
  /\ UNCHANGED << inputVars, sideVars, dbVars, isRecording, qualityVars, pc >>

processFramePlain ==
  /\ pc = "run"
  /\ variant = "plain"
  /\ isRecording
  /\ \E fps \in {fpsRef} \cup MeasuredFps :
       /\ measureFPS(fps)
       /\ fpsRef' = fps
       /\ LET newData == NewData(ppgData, ppgSignal)
          IN  /\ IF Len(newData) >= MinSamples
                 THEN LET newValleys == detectValleysNormalized(newData, fps)
                      IN  /\ valleys' = newValleys
                          /\ heartRate' = calculateHeartRate(newValleys)
                          /\ hrv' = calculateHRV(newValleys)
                 ELSE UNCHANGED estimateVars
              /\ ppgData' = newData
  /\ phase' = (phase + 1) % wave.period
  /\ UNCHANGED << inputVars, sideVars, dbVars, isRecording, qualityVars, pc >>

\* processFrame of page.tsx.
processFramePage ==
  /\ pc = "run"
  /\ variant = "page"
  /\ isRecording
  /\ \E roundsBelow \in BOOLEAN :
       LET newData == NewData(ppgData, ppgSignal)
       IN  /\ IF Len(newData) >= MinSamplesPage
              THEN LET newValleys == detectValleysPage(newData, DefaultFps, roundsBelow)
                   IN  /\ valleys' = newValleys
                       /\ heartRate' = calculateHeartRatePage(newValleys)
                       /\ hrv' = calculateHRVPage(newValleys)
              ELSE UNCHANGED estimateVars
           /\ ppgData' = newData
  /\ phase' = (phase + 1) % wave.period
  /\ UNCHANGED << inputVars, sideVars, dbVars, isRecording, fpsRef, qualityVars, pc >>

\* loadModel: tf.loadLayersModel resolves and modelRef.current is set.
loadModelSucceeds ==
  /\ pc = "run"
  /\ variant = "gated"
  /\ modelState = "loading"
  /\ modelState' = "loaded"
  /\ UNCHANGED << inputVars, sideVars, dbVars, phase, isRecording, fpsRef, ppgData, estimateVars,
                  signalQuality, qualityConfidence, pending, submitted, held, pc >>

\* loadModel: tf.loadLayersModel rejects; the error is logged.
\*
\* loadModelFailsMarksBad also reports the class bad.
loadModelFailsMarksBad ==
  /\ pc = "run"
  /\ variant = "gated"
  /\ modelState = "loading"
  /\ modelState' = "failed"
  /\ signalQuality' = "bad"
  /\ UNCHANGED << inputVars, sideVars, dbVars, phase, isRecording, fpsRef, ppgData, estimateVars,
                  qualityConfidence, pending, submitted, held, pc >>

loadModelFails ==
  /\ pc = "run"
  /\ variant = "gated"
  /\ modelState = "loading"
  /\ modelState' = "failed"
  /\ UNCHANGED << inputVars, sideVars, dbVars, phase, isRecording, fpsRef, ppgData, estimateVars,
                  signalQuality, qualityConfidence, pending, submitted, held, pc >>

\* probabilities.indexOf(Math.max(...probabilities)), 1-based here.
\*
\* ClassIndexOfLastMaximum is lastIndexOf instead.
ClassIndexOfLastMaximum(probabilities) ==
  CHOOSE i \in 1..Len(probabilities) :
    /\ \A j \in 1..Len(probabilities) : probabilities[j] <= probabilities[i]
    /\ \A j \in (i + 1)..Len(probabilities) : probabilities[j] < probabilities[i]

ClassIndex(probabilities) ==
  CHOOSE i \in 1..Len(probabilities) :
    /\ \A j \in 1..Len(probabilities) : probabilities[j] <= probabilities[i]
    /\ \A j \in 1..(i - 1) : probabilities[j] < probabilities[i]

classes == << "bad", "acceptable", "excellent" >>

\* The pending calls after the k-th of them returned.
Without(k) ==
  [j \in 1..(Len(pending) - 1) |-> pending[IF j < k THEN j ELSE j + 1]]

\* assessSignalQuality after prediction.data() resolved, for the k-th call
\* in flight: setSignalQuality(predictedClass); setQualityConfidence(confidence).
inferenceSucceeds(k, probabilities) ==
  /\ pc = "run"
  /\ k \in 1..Len(pending)
  /\ signalQuality' = classes[ClassIndex(probabilities)]
  /\ qualityConfidence' = probabilities[ClassIndex(probabilities)]
  /\ held' = pending[k]
  /\ pending' = Without(k)
  /\ UNCHANGED << inputVars, sideVars, dbVars, phase, isRecording, fpsRef, ppgData, estimateVars,
                  modelState, submitted, pc >>

\* assessSignalQuality when an await throws: the catch block logs the error.
\*
\* inferenceFailsResets also goes back to the initial assessment.
inferenceFailsResets(k) ==
  /\ pc = "run"
  /\ k \in 1..Len(pending)
  /\ pending' = Without(k)
  /\ signalQuality' = "--"
  /\ qualityConfidence' = 0
  /\ UNCHANGED << inputVars, sideVars, dbVars, phase, isRecording, fpsRef, ppgData, estimateVars,
                  modelState, submitted, held, pc >>

inferenceFails(k) ==
  /\ pc = "run"
  /\ k \in 1..Len(pending)
  /\ pending' = Without(k)
  /\ UNCHANGED << inputVars, sideVars, dbVars, phase, isRecording, fpsRef, ppgData, estimateVars,
                  modelState, signalQuality, qualityConfidence, submitted, held,
                  pc >>

Next ==
  \/ StartRecording
  \/ StopRecording
  \/ processFrameGated
  \/ processFramePlain
  \/ processFramePage
  \/ loadModelSucceeds
  \/ loadModelFails
  \/ \E k \in 1..Len(pending), probabilities \in ProbVectors :
       inferenceSucceeds(k, probabilities)
  \/ \E k \in 1..Len(pending) : inferenceFails(k)

Spec == Init /\ [][Next]_vars

\* ------------------------------------------------------------------------
\* The functions on their own
\* ------------------------------------------------------------------------

\* Bound: length of the signals handed to detectValleys.
MaxLen == 14
\* Bound: length of the valley lists handed to the estimators.
MaxValleys == 4

\* Sample values and frame rates detectValleys is called with.
Levels == {0, 20}
Rates == {0, 5, 8, 10}
Signals == UNION {[1..n -> Levels] : n \in 0..MaxLen}

\* Distances in milliseconds between consecutive valleys.
Gaps == {200, 300, 400, 800, 810, 1800, 2000, 2400}

\* The valley list with the given distances between consecutive timestamps.
ValleysWithGaps(gaps) ==
  [k \in 1..(Len(gaps) + 1) |->
     Valley(Now + SumRange(gaps, 1, k - 1), 0, k - 1)] \o <<>>

\* A steady rhythm of five beats, and seven beats with a late last one.
SteadyRR == << 800, 810, 790, 805 >>
LongRR == << 800, 810, 790, 805, 800, 1200 >>

ValleyLists ==
  {<<>>, ValleysWithGaps(SteadyRR), ValleysWithGaps(LongRR)}
    \cup UNION {{ValleysWithGaps(gaps) : gaps \in [1..n -> Gaps]} :
                  n \in 0..(MaxValleys - 1)}

\* What no call of a function reads or writes.
Idle ==
  /\ wave = CHOOSE w \in Waves : w.period = 30
  /\ phase = 0
  /\ isRecording = FALSE
  /\ heartRate = [bpm |-> 0, confidence |-> 0]
  /\ hrv = [sdnn |-> 0, confidence |-> 0]
  /\ modelState = "loading"
  /\ signalQuality = "--"
  /\ qualityConfidence = 0
  /\ pending = <<>>
  /\ submitted = 0
  /\ held = 0
  /\ twin = FreshInstance
  /\ features = <<>>
  /\ DbIdle

\* A call detectValleys(ppgData, fpsRef) of one of the three files.
InitDetect ==
  /\ pc = "call"
  /\ variant \in Variants
  /\ ppgData \in Signals
  /\ fpsRef \in Rates
  /\ valleys = <<>>
  /\ Idle

callDetectValleys ==
  /\ pc = "call"
  /\ \E roundsBelow \in BOOLEAN :
       valleys' = CASE variant = "gated" -> detectValleys(ppgData, fpsRef)
                    [] variant = "plain" -> detectValleysNormalized(ppgData, fpsRef)
                    [] variant = "page" -> detectValleysPage(ppgData, fpsRef, roundsBelow)
  /\ pc' = "done"
  /\ UNCHANGED << inputVars, sideVars, dbVars, phase, isRecording, fpsRef, ppgData, heartRate,
                  hrv, qualityVars >>

NextDetect == callDetectValleys

SpecDetect == InitDetect /\ [][NextDetect]_vars

\* A call calculateHeartRate(valleys) and a call calculateHRV(valleys) of one
\* of the three files.
InitEstimate ==
  /\ pc = "call"
  /\ variant \in Variants
  /\ valleys \in ValleyLists
  /\ ppgData = <<>>
  /\ fpsRef = DefaultFps
  /\ Idle

callCalculateHeartRate ==
  /\ pc = "call"
  /\ heartRate' = IF variant = "page" THEN calculateHeartRatePage(valleys)
                  ELSE calculateHeartRate(valleys)
  /\ pc' = "hr"
  /\ UNCHANGED << inputVars, sideVars, dbVars, phase, isRecording, fpsRef, ppgData, valleys, hrv,
                  qualityVars >>

callCalculateHRV ==
  /\ pc = "hr"
  /\ hrv' = IF variant = "page" THEN calculateHRVPage(valleys)
            ELSE calculateHRV(valleys)
  /\ pc' = "done"
  /\ UNCHANGED << inputVars, sideVars, dbVars, phase, isRecording, fpsRef, ppgData, valleys,
                  heartRate, qualityVars >>

NextEstimate == callCalculateHeartRate \/ callCalculateHRV

SpecEstimate == InitEstimate /\ [][NextEstimate]_vars

\* ------------------------------------------------------------------------
\* The feature vector of useSignalQuality
\* ------------------------------------------------------------------------

\* The two versions of useSignalQuality in the repository.
FeatureVariants == {"tenFeatures", "eightFeatures"}

\* tf.tensor2d([features], [1, 10]) and tf.tensor2d([features], [1, 8])
InputArity == 10
InputArityOlder == 8

\* The array literal calculateFeatures returns, by position.
FeatureNames ==
  << "mean", "std", "skewness", "kurtosis", "signalRange", "zeroCrossings",
     "rms", "snr", "peakCount", "mad" >>

\* An element of the returned array: which feature it is and whether its
\* value is a finite number (not NaN, not an infinity).
Number(name, defined) == [name |-> name, isFinite |-> defined]

\* calculateFeatures of the ten-feature version.  The samples are finite
\* numbers.  A quotient by signal.length is finite when the length is not
\* 0; Math.sqrt is finite on a variance that is not negative; a quotient by
\* a power of std + 1e-7 is finite when std is, the divisor being at least
\* 1e-21.  new Array(10).fill(0) is ten zeros.
\*
\* calculateFeaturesEightWhenEmpty returns eight zeros for the empty signal.
calculateFeaturesEightWhenEmpty(signal) ==
  IF Len(signal) = 0
  THEN [i \in 1..8 |-> Number(FeatureNames[i], TRUE)] \o <<>>
  ELSE
    LET lengthNonZero == Len(signal) # 0
        stdDefined == lengthNonZero /\ Spread(signal) >= 0
    IN  << Number("mean", lengthNonZero), Number("std", stdDefined),
           Number("skewness", stdDefined), Number("kurtosis", stdDefined),
           Number("signalRange", TRUE), Number("zeroCrossings", TRUE),
           Number("rms", lengthNonZero), Number("snr", stdDefined),
           Number("peakCount", TRUE), Number("mad", lengthNonZero) >>

calculateFeatures(signal) ==
  IF Len(signal) = 0
  THEN [i \in 1..10 |-> Number(FeatureNames[i], TRUE)] \o <<>>
  ELSE
    LET lengthNonZero == Len(signal) # 0
        stdDefined == lengthNonZero /\ Spread(signal) >= 0
    IN  << Number("mean", lengthNonZero), Number("std", stdDefined),
           Number("skewness", stdDefined), Number("kurtosis", stdDefined),
           Number("signalRange", TRUE), Number("zeroCrossings", TRUE),
           Number("rms", lengthNonZero), Number("snr", stdDefined),
           Number("peakCount", TRUE), Number("mad", lengthNonZero) >>

\* calculateFeatures of the eight-feature version.
calculateFeaturesOlder(signal) ==
  IF Len(signal) = 0
  THEN [i \in 1..8 |-> Number(FeatureNames[i], TRUE)] \o <<>>
  ELSE
    LET lengthNonZero == Len(signal) # 0
        stdDefined == lengthNonZero /\ Spread(signal) >= 0
    IN  << Number("mean", lengthNonZero), Number("std", stdDefined),
           Number("skewness", stdDefined), Number("kurtosis", stdDefined),
           Number("signalRange", TRUE), Number("zeroCrossings", TRUE),
           Number("rms", lengthNonZero), Number("snr", stdDefined) >>

\* A call calculateFeatures(ppgData) of one of the two versions.
InitFeatures ==
  /\ pc = "call"
  /\ variant \in FeatureVariants
  /\ ppgData \in Signals
  /\ fpsRef = DefaultFps
  /\ valleys = <<>>
  /\ Idle

callCalculateFeatures ==
  /\ pc = "call"
  /\ features' = IF variant = "tenFeatures" THEN calculateFeatures(ppgData)
                  ELSE calculateFeaturesOlder(ppgData)
  /\ pc' = "done"
  /\ UNCHANGED << inputVars, twin, dbVars, phase, isRecording, fpsRef,
                  ppgData, estimateVars, qualityVars >>

NextFeatures == callCalculateFeatures

SpecFeatures == InitFeatures /\ [][NextFeatures]_vars

\* ------------------------------------------------------------------------
\* Two instances fed the same samples
\* ------------------------------------------------------------------------

\* Bound: ticks of the pair of instances.
MaxPairTicks == 125

\* What the setPpgData updater of a hook publishes for newData, given the
\* frame rate and the class the instance sees: the plain hook recomputes
\* with fpsRef.current from 100 samples on, the quality-gated hook with the
\* default rate unless the class is bad; otherwise the old values stay.
TickEstimates(newData, fps, quality, old) ==
  IF Len(newData) >= MinSamples /\ (variant = "plain" \/ quality # "bad")
  THEN LET newValleys == IF variant = "plain"
                         THEN detectValleysNormalized(newData, fps)
                         ELSE detectValleysDefault(newData)
       IN  [valleys |-> newValleys,
            heartRate |-> calculateHeartRate(newValleys),
            hrv |-> calculateHRV(newValleys)]
  ELSE old

\* Two freshly constructed instances of one hook, both recording, the model
\* loaded in both.
InitPair ==
  /\ pc = "pair"
  /\ variant \in {"gated", "plain"}
  /\ wave \in Waves
  /\ phase = 0
  /\ isRecording = TRUE
  /\ fpsRef = FreshInstance.fpsRef
  /\ ppgData = <<>>
  /\ valleys = FreshInstance.valleys
  /\ heartRate = FreshInstance.heartRate
  /\ hrv = FreshInstance.hrv
  /\ modelState = "loaded"
  /\ signalQuality = FreshInstance.signalQuality
  /\ qualityConfidence = 0
  /\ pending = <<>>
  /\ submitted = 0
  /\ held = 0
  /\ twin = FreshInstance
  /\ features = <<>>
  /\ DbIdle

\* processFrame in both instances with the same sample.  Each instance of
\* the plain hook runs its own measureFPS on its own clock.
processFramePair ==
  /\ pc = "pair"
  /\ isRecording
  /\ Len(ppgData) < MaxPairTicks
  /\ \E fps \in {fpsRef} \cup MeasuredFps, fpsTwin \in {twin.fpsRef} \cup MeasuredFps :
       /\ variant = "gated" => fps = fpsRef /\ fpsTwin = twin.fpsRef
       /\ LET newData == NewData(ppgData, ppgSignal)
              mine == TickEstimates(newData, fps, signalQuality,
                        [valleys |-> valleys, heartRate |-> heartRate, hrv |-> hrv])
              theirs == TickEstimates(newData, fpsTwin, twin.signalQuality,
                          [valleys |-> twin.valleys, heartRate |-> twin.heartRate,
                           hrv |-> twin.hrv])
          IN  /\ ppgData' = newData
              /\ fpsRef' = fps
              /\ valleys' = mine.valleys
              /\ heartRate' = mine.heartRate
              /\ hrv' = mine.hrv
              /\ twin' = [twin EXCEPT !.fpsRef = fpsTwin,
                                      !.valleys = theirs.valleys,
                                      !.heartRate = theirs.heartRate,
                                      !.hrv = theirs.hrv]
  /\ phase' = (phase + 1) % wave.period
  /\ UNCHANGED << inputVars, isRecording, qualityVars, features, dbVars, pc >>

\* The call of assessSignalQuality that the 100th sample started in both
\* instances delivers its result in the first instance.
assessSignalQualityResolves(probabilities) ==
  /\ pc = "pair"
  /\ variant = "gated"
  /\ Len(ppgData) >= MinSamples
  /\ held = 0
  /\ signalQuality' = classes[ClassIndex(probabilities)]
  /\ qualityConfidence' = probabilities[ClassIndex(probabilities)]
  /\ held' = 1
  /\ UNCHANGED << inputVars, sideVars, dbVars, phase, isRecording, fpsRef, ppgData,
                  estimateVars, modelState, pending, submitted, pc >>

\* The same call, on the same features, delivers the same result in the
\* second instance, at that moment or later.
assessSignalQualityResolvesInTwin ==
  /\ pc = "pair"
  /\ held = 1
  /\ twin.signalQuality = FreshInstance.signalQuality
  /\ twin' = [twin EXCEPT !.signalQuality = signalQuality]
  /\ UNCHANGED << inputVars, features, dbVars, phase, isRecording, fpsRef,
                  ppgData, estimateVars, qualityVars, pc >>

NextPair ==
  \/ processFramePair
  \/ \E probabilities \in ProbVectors : assessSignalQualityResolves(probabilities)
  \/ assessSignalQualityResolvesInTwin

SpecPair == InitPair /\ [][NextPair]_vars

\* ------------------------------------------------------------------------
\* The database connection of the last-access route
\* ------------------------------------------------------------------------

\* A promise is named by the number of the mongoose.connect call that made
\* it, and the connection it resolves to by the same number (the .then of
\* the code passes the value on unchanged).

InitDb ==
  /\ pc = "db"
  /\ variant = "page"
  /\ ppgData = <<>>
  /\ fpsRef = DefaultFps
  /\ valleys = <<>>
  /\ Idle

\* dbConnectConnectingWheneverNoConn tests cached.conn only.
dbConnectConnectingWheneverNoConn(c) ==
  /\ pc = "db"
  /\ callers[c].at = "idle"
  /\ IF cached.conn # Null
     THEN /\ callers' = [callers EXCEPT ![c] = [at |-> "returned",
                                                awaits |-> Null,
                                                result |-> cached.conn]]
          /\ UNCHANGED << cached, connections >>
     ELSE /\ connections' = Append(connections, "pending")
          /\ cached' = [cached EXCEPT !.promise = Len(connections) + 1]
          /\ callers' = [callers EXCEPT ![c] = [at |-> "await",
                                                awaits |-> cached'.promise,
                                                result |-> Null]]
  /\ UNCHANGED << inputVars, sideVars, phase, isRecording, fpsRef, ppgData,
                  estimateVars, qualityVars, pc >>

\* A call of dbConnect, from its first line to its return or to its await:
\* no other code runs in between.
dbConnect(c) ==
  /\ pc = "db"
  /\ callers[c].at = "idle"
  /\ IF cached.conn # Null
     THEN /\ callers' = [callers EXCEPT ![c] = [at |-> "returned",
                                                awaits |-> Null,
                                                result |-> cached.conn]]
          /\ UNCHANGED << cached, connections >>
     ELSE /\ IF cached.promise = Null
             THEN /\ connections' = Append(connections, "pending")
                  /\ cached' = [cached EXCEPT !.promise = Len(connections) + 1]
             ELSE UNCHANGED << cached, connections >>
          /\ callers' = [callers EXCEPT ![c] = [at |-> "await",
                                                awaits |-> cached'.promise,
                                                result |-> Null]]
  /\ UNCHANGED << inputVars, sideVars, phase, isRecording, fpsRef, ppgData,
                  estimateVars, qualityVars, pc >>

\* The promise of a mongoose.connect call is fulfilled or rejected.
connectSettles(p, outcome) ==
  /\ pc = "db"
  /\ p \in 1..Len(connections)
  /\ connections[p] = "pending"
  /\ connections' = [connections EXCEPT ![p] = outcome]
  /\ UNCHANGED << inputVars, sideVars, cached, callers, phase, isRecording,
                  fpsRef, ppgData, estimateVars, qualityVars, pc >>

\* dbConnect continues after its await: it stores the connection and
\* returns it, or throws what the promise was rejected with.
dbConnectResumes(c) ==
  /\ pc = "db"
  /\ callers[c].at = "await"
  /\ connections[callers[c].awaits] # "pending"
  /\ IF connections[callers[c].awaits] = "fulfilled"
     THEN /\ cached' = [cached EXCEPT !.conn = callers[c].awaits]
          /\ callers' = [callers EXCEPT ![c].at = "returned",
                                        ![c].result = callers[c].awaits]
     ELSE /\ callers' = [callers EXCEPT ![c].at = "threw"]
          /\ UNCHANGED cached
  /\ UNCHANGED << inputVars, sideVars, connections, phase, isRecording,
                  fpsRef, ppgData, estimateVars, qualityVars, pc >>

NextDb ==
  \/ \E c \in Callers : dbConnect(c)
  \/ \E p \in 1..Len(connections), outcome \in {"fulfilled", "rejected"} :
       connectSettles(p, outcome)
  \/ \E c \in Callers : dbConnectResumes(c)

SpecDb == InitDb /\ [][NextDb]_vars

\* ------------------------------------------------------------------------
\* Properties
\* ------------------------------------------------------------------------

\* C1: whenever the published buffer has fewer than 100 samples, the
\* published valley list is empty, heartRate is {bpm: 0, confidence: 0} and
\* hrv is {sdnn: 0, confidence: 0}.
C1_NothingPublishedBelowMinSamples ==
  pc = "run" /\ Len(ppgData) < MinSamples =>
    /\ valleys = <<>>
    /\ heartRate = [bpm |-> 0, confidence |-> 0]
    /\ hrv = [sdnn |-> 0, confidence |-> 0]

\* C2: the list returned by detectValleys is strictly increasing in index,
\* and every two consecutive valleys are at least floor(fps * 0.4) samples
\* apart.
C2_ValleysIncreasingAndSpaced ==
  pc = "done" =>
    \A k \in 1..(Len(valleys) - 1) :
      /\ valleys[k].index < valleys[k + 1].index
      /\ valleys[k + 1].index - valleys[k].index >= (4 * fpsRef) \div 10

\* detectValleys of the quality-gated hook returned two valleys and left
\* out a candidate that was too close to the valley before it.
C2_CandidateTooClose ==
  /\ pc = "done"
  /\ variant = "gated"
  /\ Len(valleys) >= 2
  /\ (4 * fpsRef) \div 10 >= 2
  /\ \E c \in Candidates(ppgData, fpsRef) :
       \A k \in 1..Len(valleys) : valleys[k].index # c

\* C3: for any valley list, the confidence returned by calculateHeartRate
\* and the confidence returned by calculateHRV are numbers in [0, 100].
C3_ConfidencesInRange ==
  pc = "done" =>
    /\ heartRate.confidence \in 0..100
    /\ hrv.confidence \in 0..100

\* C4: for any valley list whose consecutive-valley intervals contain
\* exactly one valid RR interval (within [250, 2000] ms), calculateHRV
\* returns {sdnn: 0, confidence: 0}.
C4_OneValidIntervalGivesZero ==
  pc = "done" /\ Len(ValidIntervals(IntervalsMs(valleys), 250, 2000)) = 1 =>
    hrv = [sdnn |-> 0, confidence |-> 0]

\* C5: after any sequence of append ticks the buffer length is at most 300.
C5_BufferAtMostCapacity == Len(ppgData) <= SliceKeep

\* C6: every step that changes the buffer appends the sample as the last
\* element of a suffix of the old buffer, and drops elements only when the
\* old buffer is at capacity; no step changes the buffer in another way.
C6_BufferIsFifo ==
  [][ppgData' # ppgData =>
        LET dropped == Len(ppgData) + 1 - Len(ppgData')
        IN  /\ dropped \in 0..Len(ppgData)
            /\ ppgData' = Append(SubSeq(ppgData, dropped + 1, Len(ppgData)), ppgSignal)
            /\ dropped > 0 => Len(ppgData) >= SliceKeep]_vars

\* The buffer is full and a tick has dropped its oldest sample: the first
\* sample is no longer the first sample of the wave.
C6_OldestDropped ==
  /\ pc = "run"
  /\ Len(ppgData) = SliceKeep + 1
  /\ phase # (SliceKeep + 1) % wave.period

\* C7: on every tick of the quality-gated hook the sample is appended, and
\* valleys, heartRate and hrv are recomputed from the new buffer if and only
\* if it has at least 100 samples and the class is not bad; otherwise they
\* are left unchanged.
C7_QualityGate ==
  [][variant = "gated" /\ ppgData' # ppgData =>
        /\ ppgData'[Len(ppgData')] = ppgSignal
        /\ IF Len(ppgData') >= MinSamples /\ signalQuality # "bad"
           THEN /\ valleys' = detectValleysDefault(ppgData')
                /\ heartRate' = calculateHeartRate(valleys')
                /\ hrv' = calculateHRV(valleys')
           ELSE UNCHANGED << valleys, heartRate, hrv >>]_vars

\* The class is bad, the buffer has at least 100 samples and the valleys
\* are not those of the buffer: a tick appended a sample and left them.
C7_TickWhileBad ==
  /\ pc = "run"
  /\ variant = "gated"
  /\ signalQuality = "bad"
  /\ Len(ppgData) > MinSamples
  /\ valleys # <<>>
  /\ valleys # detectValleysDefault(ppgData)

\* C8: a tick that finds the model not loaded, and a call of
\* assessSignalQuality that returns without a result, leave the class and
\* its confidence as they were; the tick recomputes valleys, heartRate and
\* hrv as the gate says, and the failed call leaves the buffer, the valleys
\* and the estimates alone.
C8_FailureRetainsAssessment ==
  [][/\ variant = "gated" /\ modelState # "loaded" /\ ppgData' # ppgData =>
          /\ signalQuality' = signalQuality
          /\ qualityConfidence' = qualityConfidence
          /\ Len(ppgData') >= MinSamples /\ signalQuality # "bad" =>
                /\ valleys' = detectValleysDefault(ppgData')
                /\ heartRate' = calculateHeartRate(valleys')
                /\ hrv' = calculateHRV(valleys')
     /\ Len(pending') < Len(pending) /\ held' = held =>
          /\ signalQuality' = signalQuality
          /\ qualityConfidence' = qualityConfidence
          /\ UNCHANGED << ppgData, valleys, heartRate, hrv, isRecording >>]_vars

\* The second call returned without a result and the class is the one the
\* first call reported.
C8_FailedAfterResult ==
  /\ pc = "run"
  /\ submitted = 2
  /\ pending = <<>>
  /\ held = 1
  /\ signalQuality = "acceptable"
  /\ Len(ppgData) > MinSamples
  /\ valleys = detectValleysDefault(ppgData)

\* C9: while the model is not loaded the reported quality is '--' with
\* confidence 0 and, once the buffer has at least 100 samples, valleys,
\* heartRate and hrv are those of the current buffer.
C9_WorksWithoutModel ==
  pc = "run" /\ variant = "gated" /\ modelState # "loaded" =>
    /\ signalQuality = "--"
    /\ qualityConfidence = 0
    /\ Len(ppgData) >= MinSamples =>
          /\ valleys = detectValleysDefault(ppgData)
          /\ heartRate = calculateHeartRate(valleys)
          /\ hrv = calculateHRV(valleys)

\* The load failed and the pipeline has filled the buffer and found valleys.
C9_FullBufferAfterFailedLoad ==
  /\ pc = "run"
  /\ variant = "gated"
  /\ modelState = "failed"
  /\ Len(ppgData) > SliceKeep
  /\ Len(valleys) >= 2

\* C10: the held assessment is never overwritten by the result of a call
\* made before the call whose result is held.
C10_NeverOverwrittenByOlder == [][held' >= held]_vars

\* C11: once recording has been stopped, the completion of a call of
\* assessSignalQuality that was in flight changes no pipeline state: the
\* class, its confidence, the buffer, the valleys and the estimates stay as
\* they were.
C11_CompletionIgnoredAfterStop ==
  [][~isRecording /\ Len(pending') < Len(pending) =>
        UNCHANGED << signalQuality, qualityConfidence, ppgData, valleys,
                     heartRate, hrv >>]_vars

\* C12: the tick of the quality-gated hook, whose only step that reads the
\* calls of assessSignalQuality in flight is the start of the next call, is
\* never held back by them (up to the bound on the number of calls);
\* the class is '--' with confidence 0 as long as no call has delivered a
\* result, and the class and its confidence change only in a step in which
\* a call in flight delivers its result.
C12_InferenceNonBlocking ==
  /\ [](pc = "run" /\ variant = "gated" /\ isRecording /\ pending # <<>>
          /\ submitted < MaxInferences =>
            ENABLED SubmitInference(NewData(ppgData, ppgSignal)))
  /\ [](pc = "run" /\ held = 0 => signalQuality = "--" /\ qualityConfidence = 0)
  /\ [][<< signalQuality, qualityConfidence >>' # << signalQuality, qualityConfidence >> =>
          \E k \in 1..Len(pending) :
            /\ pending' = Without(k)
            /\ held' = pending[k]
            /\ signalQuality' \in {classes[i] : i \in 1..Len(classes)}]_vars

\* Two ticks have started calls while the first call's result was held and
\* calls were in flight: the class is still the one the first call reported.
C12_TicksWhilePending ==
  /\ pc = "run"
  /\ pending = << 2, 3 >>
  /\ held = 1
  /\ signalQuality = "acceptable"
  /\ Len(ppgData) > MinSamples + 2

\* C13: two fresh instances of a hook fed the same samples tick by tick
\* publish, at every tick, the same valleys (apart from their timestamps),
\* the same heartRate and the same hrv, whatever frame rate each measures
\* and whenever each receives the result of its inference.
C13_SameSamplesSameSnapshot ==
  pc = "pair" =>
    /\ Len(valleys) = Len(twin.valleys)
    /\ \A k \in 1..Len(valleys) :
         /\ valleys[k].index = twin.valleys[k].index
         /\ valleys[k].value = twin.valleys[k].value
    /\ heartRate = twin.heartRate
    /\ hrv = twin.hrv

\* C14: no published heartRate or hrv has a field that is NaN or infinite,
\* and no element of a feature vector is NaN or infinite.
C14_NoNaNPublished ==
  /\ heartRate.bpm # NaN
  /\ heartRate.confidence # NaN
  /\ hrv.sdnn # NaN
  /\ hrv.confidence # NaN
  /\ \A i \in 1..Len(features) : features[i].isFinite

\* C15: the array calculateFeatures returns has as many elements as the
\* tensor shape of its version declares (10 or 8), in the order mean, std,
\* skewness, kurtosis, signalRange, zeroCrossings, rms, snr, peakCount, mad
\* (the first eight for the eight-feature version), also for the empty
\* signal.
C15_FeatureVectorHasDeclaredArity ==
  pc = "done" /\ variant \in FeatureVariants =>
    /\ Len(features) = (IF variant = "tenFeatures" THEN InputArity
                        ELSE InputArityOlder)
    /\ \A i \in 1..Len(features) : features[i].name = FeatureNames[i]

\* calculateFeatures of the ten-feature version returned for the empty
\* signal.
C15_EmptySignalTenFeatures ==
  /\ pc = "done"
  /\ variant = "tenFeatures"
  /\ ppgData = <<>>
  /\ Len(features) = InputArity
  /\ features[InputArity].name = "mad"

\* C16: no step makes the buffer shorter, so a pipeline whose buffer has
\* reached 100 samples (Active) never goes back below 100 samples (Warming),
\* whatever ticks, stops and restarts follow.
C16_ActiveNeverLeft ==
  [][/\ Len(ppgData') >= Len(ppgData)
     /\ Len(ppgData) >= MinSamples => Len(ppgData') >= MinSamples]_vars

\* The buffer has been filled to its capacity by ticks and recording has
\* been stopped: the pipeline is still Active.
C16_ActiveAfterStop ==
  /\ pc = "run"
  /\ variant = "gated"
  /\ ~isRecording
  /\ Len(ppgData) = SliceKeep + 1
  /\ Len(valleys) >= 2

\* C17: for valleys whose consecutive timestamps differ by 800, 810, 790
\* and 805 ms, calculateHRV returns sdnn 9 and confidence 89.
C17_SteadyRhythm ==
  pc = "done" /\ IntervalsMs(valleys) = SteadyRR =>
    hrv = [sdnn |-> 9, confidence |-> 89]

\* calculateHRV of page.tsx has returned for the five valleys of the steady
\* rhythm, all four intervals being valid.
C17_SteadyRhythmInPage ==
  /\ pc = "done"
  /\ variant = "page"
  /\ Len(valleys) = Len(SteadyRR) + 1
  /\ ValidIntervals(IntervalsMs(valleys), 250, 2000) = SteadyRR
  /\ hrv.sdnn = 9

\* C18: calculateHeartRate keeps exactly the intervals between consecutive
\* valleys that lie in [0.4, 2.0] seconds, bounds included: it returns
\* {bpm: 0, confidence: 0} exactly when there are fewer than two valleys or
\* no interval lies in that range, and a bpm in 30..150 otherwise.
C18_HeartRateFilter ==
  pc = "done" =>
    LET kept == ValidIntervals(IntervalsMs(valleys), 400, 2000)
        none == Len(valleys) < 2 \/ Len(kept) = 0
    IN  /\ heartRate = [bpm |-> 0, confidence |-> 0] <=> none
        /\ ~none => heartRate.bpm \in 30..150

\* C19: when at least one interval is valid, calculateHeartRate returns
\* bpm = round(60 / median) for the statistical median of the valid
\* intervals: the middle value of an odd number of them, the mean of the
\* two middle values of an even number.
C19_BpmFromStatisticalMedian ==
  pc = "done" /\ Len(valleys) >= 2 =>
    LET validIntervals ==
          ValidIntervals(IntervalsMs(valleys), 400,
                         IF variant = "page" THEN 1500 ELSE 2000)
        n == Len(validIntervals)
        twiceMedian == SortedAt(validIntervals, (n - 1) \div 2)
                         + SortedAt(validIntervals, n \div 2)
    IN  n >= 1 =>
          heartRate.bpm = (240000 + twiceMedian) \div (2 * twiceMedian)

\* C20, as amended: when at least one interval is valid, the heart-rate
\* confidence is clamp(100 - 100 * stddev / mean, 0, 100), stddev being the
\* population standard deviation and mean the mean of the valid intervals
\* the median is taken from.  With c its integer part, S the sum and
\* D = n^2 * variance: 100 * sqrt(D) / S is at most 100 - c and more than
\* 99 - c (or more than 99 when c = 0).
C20_ConfidenceFromCoefficientOfVariation ==
  pc = "done" /\ Len(valleys) >= 2 =>
    LET validIntervals ==
          ValidIntervals(IntervalsMs(valleys), 400,
                         IF variant = "page" THEN 1500 ELSE 2000)
        n == Len(validIntervals)
        S == SumRange(validIntervals, 1, n)
        D == Spread(validIntervals)
        c == heartRate.confidence
    IN  n >= 1 =>
          /\ c \in 0..100
          /\ c > 0 => ProdGeq((100 - c) * S, (100 - c) * S, 10000, D)
          /\ c < 100 => ~ProdGeq((99 - c) * S, (99 - c) * S, 10000, D)

\* Two valid intervals that differ: the confidence is neither 0 nor 100.
C20_TwoUnequalIntervals ==
  /\ pc = "done"
  /\ variant = "plain"
  /\ Len(ValidIntervals(IntervalsMs(valleys), 400, 2000)) = 2
  /\ heartRate.confidence \in 1..99

\* C20, as stated: the heart-rate confidence is
\* clamp(100 - (stddev / mean) * 100 / mean, 0, 100) with the intervals in
\* seconds.  Stated for the valid-interval sets whose D = n^2 * variance is
\* the square of a whole number r of milliseconds (every set of one or two
\* intervals is): with c the integer part of the confidence,
\* 100000 * n * r / S^2 is at most 100 - c and more than 99 - c (or more
\* than 99 when c = 0).
C20_ConfidenceDividedByMeanTwice ==
  pc = "done" /\ Len(valleys) >= 2 =>
    LET validIntervals ==
          ValidIntervals(IntervalsMs(valleys), 400,
                         IF variant = "page" THEN 1500 ELSE 2000)
        n == Len(validIntervals)
        S == SumRange(validIntervals, 1, n)
        D == Spread(validIntervals)
        r == Isqrt(D)
        c == heartRate.confidence
    IN  n >= 1 /\ r * r = D =>
          /\ c \in 0..100
          /\ c > 0 => ProdGeq((100 - c) * S, S, 100000 * n, r)
          /\ c < 100 => ~ProdGeq((99 - c) * S, S, 100000 * n, r)

\* C21: for n >= 2 valid RR intervals calculateHRV returns sdnn rounded to
\* the nearest integer and confidence = round((intervalConfidence +
\* consistencyConfidence) / 2), with intervalConfidence = min(100, n/5*100)
\* (100 exactly when n >= 5) and consistencyConfidence =
\* max(0, 100 - sdnn/meanRR*100) from the unrounded sdnn.  With S the sum of
\* the intervals and D = n * sum of squares - S^2: sdnn^2 = D / (n(n-1)) and
\* cv = 100 * sqrt(n*D / (n-1)) / S; r = round(x) is 2r - 1 <= 2x < 2r + 1.
C21_HRVConfidenceAndRounding ==
  pc = "done" /\ Len(valleys) >= 2 =>
    LET validIntervals == ValidIntervals(IntervalsMs(valleys), 250, 2000)
        n == Len(validIntervals)
        S == SumRange(validIntervals, 1, n)
        D == Spread(validIntervals)
        intervalConfidence == IF n >= 5 THEN 100 ELSE 20 * n
        r == hrv.sdnn
        c == hrv.confidence
        lo == 2 * c - 1 - intervalConfidence
        hi == 2 * c + 1 - intervalConfidence
        CvAtMost(k) == ProdGeq(k * S, k * S * (n - 1), 10000, n * D)
    IN  n >= 2 =>
          /\ r >= 0
          /\ r > 0 => (2 * r - 1) * (2 * r - 1) * n * (n - 1) <= 4 * D
          /\ 4 * D < (2 * r + 1) * (2 * r + 1) * n * (n - 1)
          /\ c \in 0..100
          /\ lo > 0 => lo <= 100 /\ CvAtMost(100 - lo)
          /\ hi > 0
          /\ hi <= 100 => ~CvAtMost(100 - hi)

\* calculateHRV has returned for six valid intervals, one of them late:
\* intervalConfidence is 100 and sdnn is well above 0.
C21_SixIntervals ==
  /\ pc = "done"
  /\ variant = "gated"
  /\ ValidIntervals(IntervalsMs(valleys), 250, 2000) = LongRR
  /\ hrv.sdnn > 100
  /\ hrv.confidence \in 50..99

\* C22: every valley detectValleys of the quality-gated hook returns has an
\* index i with windowSize <= i < length - windowSize (windowSize =
\* floor(fps * 0.5)) at which the smoothed signal is below both neighbours
\* and below mean - std of the smoothed signal; and every such index that
\* is the first one, or at least floor(fps * 0.4) after the last valley
\* returned before it, is returned.  The smoothed value at i is the mean of
\* the up to five samples ending at i, taken here 60-fold; with S the sum
\* and T the sum of squares of these values, v < mean - std is
\* S - n*v > 0 and (S - n*v)^2 > n*T - S^2.
C22_ValleysAreTheSpacedMinima ==
  pc = "done" /\ variant = "gated" =>
    LET n == Len(ppgData)
        windowSize == fpsRef \div 2
        minValleyDistance == (4 * fpsRef) \div 10
        Sm(i) == LET first == Max2(0, i - 4)
                 IN  SumRange(ppgData, first + 1, i + 1) * (60 \div (i - first + 1))
        sm == [k \in 1..n |-> Sm(k - 1)]
        S == SumRange(sm, 1, n)
        T == SumSqRange(sm, 1, n)
        IsMinimum(i) ==
          /\ i >= windowSize
          /\ i < n - windowSize
          /\ i >= 1
          /\ i <= n - 2
          /\ Sm(i) < Sm(i - 1)
          /\ Sm(i) < Sm(i + 1)
          /\ S - n * Sm(i) > 0
          /\ (S - n * Sm(i)) * (S - n * Sm(i)) > n * T - S * S
        returned == {valleys[k].index : k \in 1..Len(valleys)}
        Before(i) == {j \in returned : j < i}
    IN  /\ \A i \in returned : IsMinimum(i)
        /\ \A i \in 0..(n - 1) :
             /\ IsMinimum(i)
             /\ \A j \in Before(i) : i - j >= minValleyDistance
             => i \in returned

\* detectValleys of the quality-gated hook returned two valleys, the first
\* of them at the first index of the loop.
C22_ValleyAtWindowSize ==
  /\ pc = "done"
  /\ variant = "gated"
  /\ fpsRef \div 2 >= 2
  /\ Len(valleys) >= 2
  /\ valleys[1].index = fpsRef \div 2

\* C23: for any signal of fewer than 100 samples detectValleys returns an
\* empty valley list.
C23_ShortSignalNoValleys ==
  pc = "done" /\ Len(ppgData) < MinSamples => valleys = <<>>

\* C24: a call of assessSignalQuality that delivers its result publishes,
\* for the three-element probability vector returned (in percent, so that
\* the published confidence is the probability times 100), the class at the
\* position of the first greatest probability in the order bad, acceptable,
\* excellent, and that greatest probability as confidence, which lies in
\* [0, 100].
C24_ClassIsArgmax ==
  [][held' # held =>
       \E p \in ProbVectors :
         /\ Len(p) = 3
         /\ \E i \in 1..3 :
              /\ \A j \in 1..3 : p[j] <= p[i]
              /\ \A j \in 1..3 : j < i => p[j] < p[i]
              /\ signalQuality' = << "bad", "acceptable", "excellent" >>[i]
              /\ qualityConfidence' = p[i]
         /\ qualityConfidence' \in 0..100]_vars

\* A result with two equal greatest probabilities has been published: the
\* class is the first of the two.
C24_TieGivesFirstClass ==
  /\ pc = "run"
  /\ held > 0
  /\ signalQuality = "bad"
  /\ qualityConfidence = 40

\* C25: a tick starts a call of assessSignalQuality only when the new
\* buffer has at least 100 samples and the model is loaded; as long as the
\* buffer has fewer than 100 samples no call has been started and the class
\* is '--' with confidence 0.
C25_NoInferenceBelowMinSamples ==
  /\ [](pc = "run" /\ Len(ppgData) < MinSamples =>
          /\ submitted = 0
          /\ pending = <<>>
          /\ signalQuality = "--"
          /\ qualityConfidence = 0)
  /\ [][submitted' # submitted =>
          /\ Len(ppgData') >= MinSamples
          /\ modelState = "loaded"
          /\ submitted' = submitted + 1]_vars

\* The model was loaded before the buffer reached 100 samples, and the tick
\* that brought the 100th sample started the first call.
C25_FirstCallAtMinSamples ==
  /\ pc = "run"
  /\ variant = "gated"
  /\ Len(ppgData) = MinSamples
  /\ submitted = 1
  /\ pending = << 1 >>
  /\ signalQuality = "--"

C27_GateDoesNotLatch ==
  [][variant = "gated" /\ ppgData' # ppgData =>
       /\ ppgData' = Append(SubSeq(ppgData, Len(ppgData) + 2 - Len(ppgData'),
                                   Len(ppgData)), ppgSignal)
       /\ Len(ppgData') >= MinSamples /\ modelState = "loaded" =>
            /\ submitted' = submitted + 1
            /\ pending' = Append(pending, submitted')
       /\ signalQuality # "bad" /\ Len(ppgData') >= MinSamples =>
            /\ valleys' = detectValleysDefault(ppgData')
            /\ heartRate' = calculateHeartRate(valleys')
            /\ hrv' = calculateHRV(valleys')]_vars

\* The first call reported the class bad, a tick has left the valleys stale
\* since, and the second call, the last one started, is in flight.
C27_CallInFlightWhileBad ==
  /\ pc = "run"
  /\ variant = "gated"
  /\ signalQuality = "bad"
  /\ held = 1
  /\ submitted = 2
  /\ pending = << 2 >>
  /\ valleys # detectValleysDefault(ppgData)

\* C28: in every published state heartRate is calculateHeartRate of the
\* published valleys and hrv is calculateHRV of the published valleys (for
\* the initial empty list these are the initial values), so no state mixes
\* estimates of different ticks.
C28_EstimatesOfPublishedValleys ==
  pc = "run" =>
    IF variant = "page"
    THEN /\ heartRate = calculateHeartRatePage(valleys)
         /\ hrv = calculateHRVPage(valleys)
    ELSE /\ heartRate = calculateHeartRate(valleys)
         /\ hrv = calculateHRV(valleys)

\* The plain hook has published estimates of a buffer that is past its
\* capacity: several valleys, a heart rate and a variability above zero.
C28_EstimatesPastCapacity ==
  /\ pc = "run"
  /\ variant = "plain"
  /\ Len(ppgData) > SliceKeep
  /\ Len(valleys) >= 3
  /\ heartRate.bpm > 0
  /\ hrv.sdnn > 0

\* C29: mongoose.connect is called at most once in the process, and once as
\* soon as any call of dbConnect has started; every call of dbConnect that
\* returns, returns the connection of that one attempt, which is
\* cached.conn; and a call made when cached.conn is set returns it at once
\* and calls mongoose.connect no more.
C29_OneConnectionAttempt ==
  /\ [](/\ Len(connections) <= 1
        /\ (\E c \in Callers : callers[c].at # "idle") => Len(connections) = 1
        /\ \A c \in Callers :
             callers[c].at = "returned" =>
               /\ connections = << "fulfilled" >>
               /\ callers[c].result = 1
               /\ callers[c].result = cached.conn)
  /\ [][\A c \in Callers :
          (cached.conn # Null /\ dbConnect(c)) =>
            /\ callers'[c].at = "returned"
            /\ callers'[c].result = cached.conn
            /\ connections' = connections
            /\ cached' = cached]_vars

\* Two calls that waited for the same attempt have returned, and so has a
\* call that was made after cached.conn was set.
C29_ConcurrentAndLaterCallsReturned ==
  /\ pc = "db"
  /\ \E c, d, e \in Callers :
       /\ c # d
       /\ callers[c].at = "returned" /\ callers[c].awaits = 1
       /\ callers[d].at = "returned" /\ callers[d].awaits = 1
       /\ callers[e].at = "returned" /\ callers[e].awaits = Null

====
